---- MODULE Spec2Model ----
(***************************************************************************)
(* Model of raspi-gpio-lightswitch.py: the table-driven state machine of   *)
(* class RaspiGPIOLightSwitch, its three light actions, the state file of  *)
(* dimMode 2, and the process around it (start, button callbacks, exit).   *)
(*                                                                         *)
(* Numbers.  _dimStep is +1/dimLevels or -1/dimLevels in the source; the   *)
(* model keeps its numerator (dimStep is 1 or -1) and every light level is *)
(* the numerator of a fraction over dimLevels.  The value the light holds  *)
(* is the numerator of a fraction over dimLevels^linExp (the brightness    *)
(* correction pow(new_value, linExp) with an integer exponent).  Floating  *)
(* point rounding is not modelled.  The state file holds text; a numeric   *)
(* text is modelled by the integer it parses to.                           *)
(***************************************************************************)
EXTENDS Integers, Sequences, FiniteSets, TLC

VARIABLES
    dimMode,        \* self._dimMode
    eventMode,      \* self._eventMode
    dimLevels,      \* self._dimLevels
    dimStep,        \* sign of self._dimStep (its size is 1/dimLevels)
    linExp,         \* self._linExp
    phase,          \* "running" (service loop), "exiting" (finally block done), "stopped"
    dimIndex,       \* self._dimIndex
    current_state,  \* self._current_state
    light,          \* self._light.value, numerator over dimLevels^linExp
    stateFile,      \* content of STATEFILE
    button,         \* "pressed" or "released": the input pin
    holding,        \* the button's hold timer is running (set after a press callback)
    pc,             \* per callback thread: the position of its callback, or "idle"
    ev,             \* per callback thread: the event of its callback
    next_state,     \* per callback thread: the local next_state of handleButtonEvent
    offCount,       \* calls of switchLightOff in this process
    lastEvent,      \* history: the event handled last ("start" before the first)
    lastAct,        \* history: what that handling ran
    lastValue,      \* history: <<n>> if it passed n/dimLevels to setLightToLevel, else <<>>
    nPress,         \* history: press events handled since the start
    startPressed,   \* history: the button was down when the process started
    lightAct,       \* history: the last light action run since the start
    prevLight,      \* history: lightAct when the current press/release cycle began
    cycHold,        \* history: a hold event was handled in the current cycle
    cycActs,        \* history: light actions run by the press and release of the cycle
    cycIdx,         \* history: dimIndex when the current cycle began
    levelReq,       \* history: <<n>> last level passed by on-restore or dim-step
    savedVal,       \* history: <<n>> level driven by the dim-step that wrote stateFile
    startFile,      \* history: stateFile when the process started
    startSaved,     \* history: savedVal when the process started
    dimSince,       \* history: a dim-step has run since the start
    firstOn,        \* history: <<n, d>> of the first on-restore since the start
    lastIO,         \* history: what the output and the state file did in the last handler
    configFile      \* the entries Button, Dim and Light of CONFIGFILE, as far as modelled

config == <<dimMode, eventMode, dimLevels, dimStep, linExp, configFile>>
engine == <<dimIndex, current_state, light, stateFile>>
threads == <<pc, ev, next_state>>
history == <<lastEvent, lastAct, lastValue, nPress, startPressed, lightAct,
             prevLight, cycHold, cycActs, cycIdx, levelReq, savedVal,
             startFile, startSaved, dimSince, firstOn, lastIO>>
vars == <<config, phase, engine, button, holding, threads, offCount, history>>

(* Bounds of the model. *)
MaxLevels == 4
MaxPress == 5
MaxFaultPress == 2
MaxBootPress == 1

(* ---- tables and constants of the class ---- *)

EVENT_RELEASE == 0
EVENT_PRESS == 1
EVENT_HOLD == 2

Sentinel == 9
NoState == -1
NoAction == -1
ActionOffNo == 0
ActionOnNo == 1
ActionDimNo == 2
ActionUndefined == -9

STATES ==
    << << << (1 :> 2 @@ 3 :> 0), (0 :> 1 @@ 2 :> 3) >>,
          << (1 :> 0 @@ 3 :> 2), (0 :> 3 @@ 2 :> 1) >>,
          << (1 :> 2 @@ 4 :> 0), (0 :> 1 @@ 2 :> 4) >>,
          << (3 :> 2 @@ 5 :> 0), (0 :> 3 @@ 2 :> 5) >> >>,
       << << (1 :> 2 @@ 3 :> 0), (0 :> 1 @@ 2 :> 9) >>,
          << (1 :> 9 @@ 3 :> 2), (0 :> 3 @@ 2 :> 1) >>,
          << (1 :> 2 @@ 4 :> 0), (0 :> 1 @@ 2 :> 9) >>,
          << (1 :> 2 @@ 3 :> 2 @@ 5 :> 0), (0 :> 3 @@ 2 :> 9) >> >>,
       << << (1 :> 2 @@ 3 :> 0 @@ 6 :> 2 @@ 7 :> 0), (0 :> 1 @@ 2 :> 3),
             (1 :> 6 @@ 3 :> 7 @@ 6 :> 6 @@ 7 :> 7) >>,
          << (1 :> 0 @@ 3 :> 2 @@ 6 :> 2), (0 :> 3 @@ 2 :> 1),
             (1 :> 6 @@ 3 :> 6 @@ 6 :> 6) >>,
          << (1 :> 2 @@ 4 :> 0 @@ 6 :> 2), (0 :> 1 @@ 2 :> 4),
             (1 :> 6 @@ 4 :> 6 @@ 6 :> 6) >>,
          << (3 :> 2 @@ 5 :> 0 @@ 6 :> 2 @@ 7 :> 0), (0 :> 3 @@ 2 :> 5),
             (3 :> 6 @@ 5 :> 7 @@ 6 :> 6 @@ 7 :> 7) >> >> >>

(* the class attribute ACTIONS (a reserved word of TLA+), -9 standing for None *)
ACTIONS_TABLE ==
    << << << -1,  1, -1,  0, -9, -9, -9, -9 >>,
          <<  0, -1,  1, -1, -9, -9, -9, -9 >>,
          <<  0,  1, -1, -9, -1, -9, -9, -9 >>,
          << -1, -9,  1, -1, -9,  0, -9, -9 >> >>,
       << << -1,  2, -1,  0, -9, -9, -9, -9 >>,
          <<  0, -1,  2, -1, -9, -9, -9, -9 >>,
          <<  0,  2, -1, -9, -1, -9, -9, -9 >>,
          << -1, -1,  2, -1, -9,  0, -9, -9 >> >>,
       << << -1,  1, -1,  0, -9, -9,  2, -1 >>,
          <<  0, -1,  1, -1, -9, -9,  2, -9 >>,
          <<  0,  1, -1, -9, -1, -9,  2, -9 >>,
          << -1, -9,  1, -1, -9,  0,  2, -1 >> >> >>

(* Variant: the action table of the neighbouring event mode is selected. *)
stateMachineShifted ==
    << STATES[dimMode + 1][eventMode + 1],
       ACTIONS_TABLE[dimMode + 1][((eventMode + 1) % 4) + 1] >>

(* self._stateMachine, as setupStateMachine selects it *)
stateMachine == << STATES[dimMode + 1][eventMode + 1], ACTIONS_TABLE[dimMode + 1][eventMode + 1] >>

EventName(event) ==
    CASE event = EVENT_RELEASE -> "release"
      [] event = EVENT_PRESS -> "press"
      [] OTHER -> "hold"

ActName(action) ==
    CASE action = NoAction -> "none"
      [] action = ActionOffNo -> "off"
      [] action = ActionOnNo -> "on"
      [] action = ActionDimNo -> "dim"
      [] OTHER -> "fault"

(* ---- configuration read at start ---- *)

(* The configuration file.  event is the index of the Button entry's    *)
(* event word in VALUES_PRESS_RELEASE, -1 for any other word.  dim is   *)
(* the Dim entry split at the commas: the dim mode, the level count,    *)
(* the direction ("up", "dn", anything else "bad") and the hold time    *)
(* (a number "num", anything else "bad"), each optional after the first;*)
(* <<>> for a file without the entry.  exp is the exponent of the Light *)
(* entry, <<>> if left out; 0 stands for an exponent below 1.           *)
DimEntries ==
    {<<>>}
    \cup {<<m>> : m \in -1..3}
    \cup {<<m, n>> : m \in -1..3, n \in -1..MaxLevels}
    \cup {<<m, n, d>> : m \in -1..3, n \in -1..MaxLevels, d \in {"up", "dn", "bad"}}
    \cup {<<m, n, d, h>> : m \in -1..3, n \in -1..MaxLevels, d \in {"up", "dn", "bad"},
                           h \in {"num", "bad"}}

ConfigFiles == [event : -1..3, dim : DimEntries, exp : {<<>>} \cup {<<x>> : x \in 0..2}]

(* an attribute of the object that no statement has assigned yet *)
Unset == -99

(* checkDimModeRange *)
checkDimModeRange(m) == ~(m > 2 \/ m < 0)

(* checkDimConfigParamCount *)
checkDimConfigParamCount(m, len) == ~((m = 0 /\ len > 1) \/ len > m + 2)

(* configureDimLevels: the level count of the Dim entry, 3 when it is <= 1 *)
configureDimLevels(n) == IF n > 1 THEN n ELSE 3

(* Content of the state file: absent, text that is no number (or a file *)
(* that cannot be read), or the text of a number k.                     *)
FileContents ==
    {<<"absent">>, <<"text">>} \cup {<<"num", k>> : k \in -1..(MaxLevels + 1)}

(* Variant: the stored index is ignored and the default is taken. *)
readStateFileDefault(file, idx) == IF dimMode < 2 THEN idx ELSE dimLevels

(* readStateFile: the dim index after the start, from the index idx that *)
(* initGPIO left                                                         *)
readStateFile(file, idx) ==
    IF dimMode < 2 THEN idx
    ELSE IF file[1] = "absent" THEN dimLevels
    ELSE IF file[1] = "num" THEN (IF file[2] > dimLevels THEN dimLevels ELSE file[2])
    ELSE idx

(* configureDimDirection: the sign of _dimStep, 0 for the error *)
configureDimDirection(dim) ==
    IF Len(dim) > 2
    THEN (IF dim[3] = "dn" THEN -1 ELSE IF dim[3] = "up" THEN 1 ELSE 0)
    ELSE 1

(* configureDimHoldtime: the hold time is a number, or left out (the *)
(* default of 1.5 s is taken)                                        *)
configureDimHoldtime(dim) == Len(dim) > 3 => dim[4] = "num"

(* initGPIO up to getDimmingConfig: the dim attributes afterwards, and *)
(* whether every check passed                                          *)
getDimmingConfig(dim) ==
    IF dim = <<>>
    THEN [ok |-> TRUE, dimMode |-> 0, dimIndex |-> 1, dimLevels |-> 1, dimStep |-> 1]
    ELSE IF ~checkDimModeRange(dim[1]) \/ ~checkDimConfigParamCount(dim[1], Len(dim))
    THEN [ok |-> FALSE, dimMode |-> dim[1], dimIndex |-> 1, dimLevels |-> 1, dimStep |-> 1]
    ELSE IF dim[1] = 0
    THEN [ok |-> TRUE, dimMode |-> 0, dimIndex |-> 1, dimLevels |-> 1, dimStep |-> 1]
    ELSE [ok |-> configureDimDirection(dim) # 0 /\ configureDimHoldtime(dim),
          dimMode |-> dim[1],
          dimIndex |-> 0,
          dimLevels |-> IF Len(dim) > 1 THEN configureDimLevels(dim[2]) ELSE 3,
          dimStep |-> IF configureDimDirection(dim) < 0 THEN -1 ELSE 1]

(* Variant: any exponent is accepted. *)
checkLinExpAny(exp) == TRUE

(* createAndConfigureLight: the exponent is left out or at least 1 *)
checkLinExp(exp) == exp = <<>> \/ ~(exp[1] < 1)

(* a file from which initGPIO gets the configuration of this state *)
fileOfConfig ==
    [event |-> eventMode,
     dim |-> IF dimMode = 0 THEN <<>>
             ELSE <<dimMode, dimLevels, IF dimStep > 0 THEN "up" ELSE "dn">>,
     exp |-> <<linExp>>]

(* initGPIO / configureDimLevels: the dim index before readStateFile *)
initDimIndex == IF dimMode = 0 THEN 1 ELSE 0

(* ---- the state machine ---- *)

(* self._stateMachine[0][event][current], -1 standing for the exception *)
(* (no table for the event, or no entry for the state)                  *)
nextTemp(event, current) ==
    IF event + 1 <= Len(stateMachine[1]) /\ current \in DOMAIN stateMachine[1][event + 1]
    THEN stateMachine[1][event + 1][current]
    ELSE NoState

(* Variant: the sentinel always resolves to the dimming state. *)
resolveSentinelNever(idx) == IF eventMode = 1 THEN 2 ELSE 1

(* Variant: the comparison admits the last level, so the turn-off state *)
(* is never chosen.                                                     *)
resolveSentinelLate(idx) ==
    IF idx <= dimLevels
    THEN (IF eventMode = 1 THEN 2 ELSE 1)
    ELSE (0 :> 3 @@ 1 :> 0 @@ 2 :> 4 @@ 3 :> 5)[eventMode]

(* Variant: the turn-off states of event modes 2 and 3 are exchanged. *)
resolveSentinelSwapped(idx) ==
    IF idx < dimLevels
    THEN (IF eventMode = 1 THEN 2 ELSE 1)
    ELSE (0 :> 3 @@ 1 :> 0 @@ 2 :> 5 @@ 3 :> 4)[eventMode]

(* the state getNextStateNumber resolves the sentinel 9 to *)
resolveSentinel(idx) ==
    IF idx < dimLevels
    THEN (IF eventMode = 1 THEN 2 ELSE 1)
    ELSE (0 :> 3 @@ 1 :> 0 @@ 2 :> 4 @@ 3 :> 5)[eventMode]

(* getNextStateNumber: the value returned *)
getNextStateNumber(event, current, idx) ==
    IF nextTemp(event, current) = Sentinel THEN resolveSentinel(idx)
    ELSE nextTemp(event, current)

(* Variant: the index is reset at dimLevels whatever the table entry is. *)
lookupDimIndexAlways(event, current, idx) == IF ~(idx < dimLevels) THEN 0 ELSE idx

(* Variant: the turn-off branch forgets to reset the dim index. *)
lookupDimIndexKeep(event, current, idx) == idx

(* getNextStateNumber: self._dimIndex when it returns *)
lookupDimIndex(event, current, idx) ==
    IF nextTemp(event, current) = Sentinel /\ ~(idx < dimLevels) THEN 0 ELSE idx

(* setNextState: action = self._stateMachine[1][next_state] *)
actionOf(nxt) == stateMachine[2][nxt + 1]

(* ---- the light ---- *)

(* Variant: downward steps use the formula of upward steps. *)
levelValueUp(idx) == idx

(* next_value of actionOn and actionDim, as a numerator over dimLevels *)
levelValue(idx) ==
    IF dimStep > 0 THEN idx * dimStep ELSE dimLevels + (idx - 1) * dimStep

(* pow(new_value, self._linExp), as a numerator over dimLevels^linExp *)
brightness(n) == IF linExp = 1 THEN n ELSE n ^ linExp

fullScale == IF linExp = 1 THEN dimLevels ELSE dimLevels ^ linExp

(* setLightToLevel: the light's value afterwards; a value outside 0..1 *)
(* is refused by the output device and the exception is logged         *)
setLightToLevel(n, lt) ==
    IF 0 <= brightness(n) /\ brightness(n) <= fullScale THEN brightness(n) ELSE lt

(* Variant: the step saturates at dimLevels instead of wrapping. *)
dimNextSaturate(idx) == IF idx + 1 > dimLevels THEN dimLevels ELSE idx + 1

(* Variant: the step wraps to 0 instead of 1. *)
dimNextZero(idx) == IF idx + 1 > dimLevels THEN 0 ELSE idx + 1

(* actionDim: the dim index after the step *)
dimNext(idx) == IF idx + 1 > dimLevels THEN 1 ELSE idx + 1

(* writeStateFile *)
writeStateFile(idx) == <<"num", idx>>

(* Variant: switching off also forgets the level. *)
actionOffReset(idx, lt, file) ==
    [idx |-> 0, light |-> setLightToLevel(0, lt), file |-> file, value |-> <<0>>]

(* actionOff *)
actionOff(idx, lt, file) ==
    [idx |-> idx, light |-> setLightToLevel(0, lt), file |-> file, value |-> <<0>>]

(* actionOn *)
actionOn(idx, lt, file) ==
    [idx |-> idx, light |-> setLightToLevel(levelValue(idx), lt), file |-> file,
     value |-> <<levelValue(idx)>>]

(* actionDim *)
actionDim(idx, lt, file) ==
    [idx |-> dimNext(idx),
     light |-> setLightToLevel(levelValue(dimNext(idx)), lt),
     file |-> IF dimMode = 2 THEN writeStateFile(dimNext(idx)) ELSE file,
     value |-> <<levelValue(dimNext(idx))>>]

(* setNextState, the part that runs the action: action_call() of *)
(* self._actions[action], nothing for action -1 or None           *)
runAction(action, idx, lt, file) ==
    CASE action = ActionOffNo -> actionOff(idx, lt, file)
      [] action = ActionOnNo -> actionOn(idx, lt, file)
      [] action = ActionDimNo -> actionDim(idx, lt, file)
      [] OTHER -> [idx |-> idx, light |-> lt, file |-> file, value |-> <<>>]

(* Variant: the error path keeps the state it found. *)
resetStateKeep == current_state

(* the state the error paths of handleButtonEvent and setNextState set *)
resetState == 0

(* Variant: a state without an action is taken for a fault. *)
committedStateStrict(nxt) ==
    IF actionOf(nxt) = ActionUndefined \/ actionOf(nxt) = NoAction THEN resetState ELSE nxt

(* setNextState: self._current_state afterwards *)
committedState(nxt) ==
    IF actionOf(nxt) = ActionUndefined THEN resetState ELSE nxt

(* handleButtonEvent: the whole handler, from the state it finds *)
handleButtonEvent(event, current, idx, lt, file) ==
    LET nxt == getNextStateNumber(event, current, idx)
        idx1 == lookupDimIndex(event, current, idx)
    IN  IF nxt >= 0
        THEN LET r == runAction(actionOf(nxt), idx1, lt, file)
             IN  [state |-> committedState(nxt), idx |-> r.idx, light |-> r.light,
                  file |-> r.file, value |-> r.value,
                  act |-> ActName(actionOf(nxt))]
        ELSE [state |-> resetState, idx |-> idx1, light |-> lt, file |-> file, value |-> <<>>,
              act |-> "noentry"]

(* ---- the handler with an output or a state file that fails ---- *)

(* What the devices do in one handler: the light takes the value or    *)
(* raises on the assignment; the state file is written, cannot be      *)
(* opened for writing, or is opened (and so emptied) and then not      *)
(* written.                                                            *)
IOOutcomes == [light : {"ok", "refused"}, write : {"ok", "failed", "truncated"}]

NoFault == [light |-> "ok", write |-> "ok"]

(* setLightToLevel: an exception of the assignment is caught and logged *)
setLightToLevelIO(n, lt, io) ==
    IF io.light = "ok" THEN setLightToLevel(n, lt) ELSE lt

(* writeStateFile: an exception of open or write is caught and logged *)
writeStateFileIO(idx, file, io) ==
    CASE io.write = "ok" -> writeStateFile(idx)
      [] io.write = "failed" -> file
      [] OTHER -> <<"text">>

(* actionOff *)
actionOffIO(idx, lt, file, io) ==
    [idx |-> idx, light |-> setLightToLevelIO(0, lt, io), file |-> file, value |-> <<0>>]

(* actionOn *)
actionOnIO(idx, lt, file, io) ==
    [idx |-> idx, light |-> setLightToLevelIO(levelValue(idx), lt, io), file |-> file,
     value |-> <<levelValue(idx)>>]

(* Variant: the index is saved in every dim mode. *)
actionDimIOAlways(idx, lt, file, io) ==
    [idx |-> dimNext(idx),
     light |-> setLightToLevelIO(levelValue(dimNext(idx)), lt, io),
     file |-> writeStateFileIO(dimNext(idx), file, io),
     value |-> <<levelValue(dimNext(idx))>>]

(* actionDim *)
actionDimIO(idx, lt, file, io) ==
    [idx |-> dimNext(idx),
     light |-> setLightToLevelIO(levelValue(dimNext(idx)), lt, io),
     file |-> IF dimMode = 2 THEN writeStateFileIO(dimNext(idx), file, io) ELSE file,
     value |-> <<levelValue(dimNext(idx))>>]

(* setNextState: action_call() *)
runActionIO(action, idx, lt, file, io) ==
    CASE action = ActionOffNo -> actionOffIO(idx, lt, file, io)
      [] action = ActionOnNo -> actionOnIO(idx, lt, file, io)
      [] action = ActionDimNo -> actionDimIO(idx, lt, file, io)
      [] OTHER -> [idx |-> idx, light |-> lt, file |-> file, value |-> <<>>]

(* Variant: a refused value is not caught in setLightToLevel. *)
actionRaisesUncaught(action, io) == action >= 0 /\ io.light = "refused"

(* action_call() raises into setNextState: never, setLightToLevel and *)
(* writeStateFile catch every Exception                               *)
actionRaises(action, io) == FALSE

(* setNextState: self._current_state afterwards *)
committedStateIO(nxt, io) ==
    IF actionOf(nxt) = ActionUndefined \/ actionRaises(actionOf(nxt), io)
    THEN resetState
    ELSE nxt

(* what of io the handler met: the light's answer if it ran a light *)
(* action, the file's if it ran dim-step in dimMode 2                *)
usedIO(act, io) ==
    [light |-> IF act \in {"off", "on", "dim"} THEN io.light ELSE "ok",
     write |-> IF act = "dim" /\ dimMode = 2 THEN io.write ELSE "ok"]

(* handleButtonEvent: the whole handler *)
handleButtonEventIO(event, current, idx, lt, file, io) ==
    LET nxt == getNextStateNumber(event, current, idx)
        idx1 == lookupDimIndex(event, current, idx)
    IN  IF nxt >= 0
        THEN LET r == runActionIO(actionOf(nxt), idx1, lt, file, io)
             IN  [state |-> committedStateIO(nxt, io), idx |-> r.idx, light |-> r.light,
                  file |-> r.file, value |-> r.value,
                  act |-> ActName(actionOf(nxt))]
        ELSE [state |-> resetState, idx |-> idx1, light |-> lt, file |-> file, value |-> <<>>,
              act |-> "noentry"]

(* ---- the process ---- *)

LinExps == {1, 2}

(* The threads that call the callbacks: the one that reports the edges of *)
(* the input pin (when_pressed, when_released) and the button's hold      *)
(* timer (when_held).                                                     *)
Threads == {"edge", "hold"}

(* The history variables after a handler that handled event, ran act and *)
(* passed value (<<n>>, or <<>> for none) to setLightToLevel.            *)
Record(event, act, value) ==
    /\ lastEvent' = EventName(event)
    /\ lastAct' = act
    /\ lastValue' = value
    /\ nPress' = IF event = EVENT_PRESS THEN nPress + 1 ELSE nPress
    /\ lightAct' = IF act \in {"off", "on", "dim"} THEN act ELSE lightAct
    /\ prevLight' = IF event = EVENT_PRESS THEN lightAct ELSE prevLight
    /\ cycHold' = IF event = EVENT_PRESS THEN FALSE
                  ELSE IF event = EVENT_HOLD THEN TRUE ELSE cycHold
    /\ cycActs' = IF event = EVENT_PRESS
                  THEN (IF act \in {"off", "on", "dim"} THEN <<act>> ELSE <<>>)
                  ELSE IF event = EVENT_RELEASE /\ act \in {"off", "on", "dim"}
                       THEN Append(cycActs, act)
                       ELSE cycActs
    /\ cycIdx' = IF event = EVENT_PRESS THEN dimIndex ELSE cycIdx
    /\ levelReq' = IF act \in {"on", "dim"} THEN value ELSE levelReq
    /\ savedVal' = IF act = "dim" /\ dimMode = 2 THEN value ELSE savedVal
    /\ dimSince' = (dimSince \/ act = "dim")
    /\ firstOn' = IF act = "on" /\ firstOn = <<>>
                  THEN <<value[1], IF dimSince THEN 1 ELSE 0>>
                  ELSE firstOn
    /\ UNCHANGED <<startPressed, startFile, startSaved>>

(* The state after the module's main block reached the service loop:    *)
(* initGPIO, readStateFile, setupStateMachine.  The configuration, the  *)
(* state file and the position of the button are what the process finds. *)
Init ==
    /\ dimMode \in 0..2
    /\ eventMode \in 0..3
    /\ dimLevels \in IF dimMode = 0 THEN {1}
                     ELSE {configureDimLevels(n) : n \in 0..MaxLevels}
    /\ dimStep \in IF dimMode = 0 THEN {1} ELSE {1, -1}
    /\ linExp \in LinExps
    /\ configFile = fileOfConfig
    /\ stateFile \in FileContents
    /\ button \in {"released", "pressed"}
    /\ phase = "running"
    /\ dimIndex = readStateFile(stateFile, initDimIndex)
    /\ current_state = 0
    /\ light = 0
    /\ holding = FALSE
    /\ pc = [t \in Threads |-> "idle"]
    /\ ev = [t \in Threads |-> IF t = "hold" THEN EVENT_HOLD ELSE EVENT_RELEASE]
    /\ next_state = [t \in Threads |-> 0]
    /\ offCount = 0
    /\ lastEvent = "start" /\ lastAct = "start" /\ lastValue = <<>>
    /\ nPress = 0
    /\ startPressed = (button = "pressed")
    /\ lightAct = "start" /\ prevLight = "start"
    /\ cycHold = FALSE /\ cycActs = <<>> /\ cycIdx = dimIndex
    /\ levelReq = <<>> /\ savedVal = <<>>
    /\ startFile = stateFile /\ startSaved = <<>>
    /\ dimSince = FALSE /\ firstOn = <<>>
    /\ lastIO = NoFault

(* One button callback run from its first to its last statement. *)
Handle(event) ==
    LET r == handleButtonEvent(event, current_state, dimIndex, light, stateFile)
    IN  /\ current_state' = r.state
        /\ dimIndex' = r.idx
        /\ light' = r.light
        /\ stateFile' = r.file
        /\ Record(event, r.act, r.value)
        /\ lastIO' = NoFault

(* handleWhenPressed, called by the button on a falling-to-active edge *)
WhenPressed ==
    /\ phase = "running" /\ button = "released" /\ nPress < MaxPress
    /\ button' = "pressed"
    /\ holding' = TRUE
    /\ Handle(EVENT_PRESS)
    /\ UNCHANGED <<config, phase, threads, offCount>>

(* handleWhenReleased *)
WhenReleased ==
    /\ phase = "running" /\ button = "pressed"
    /\ button' = "released"
    /\ holding' = FALSE
    /\ Handle(EVENT_RELEASE)
    /\ UNCHANGED <<config, phase, threads, offCount>>

(* handleWhenHeld: registered in dimMode 2 only, called after hold_time *)
(* and again every hold_time while the button stays down                *)
WhenHeld ==
    /\ phase = "running" /\ dimMode = 2 /\ button = "pressed" /\ holding
    /\ Handle(EVENT_HOLD)
    /\ UNCHANGED <<config, phase, button, holding, threads, offCount>>

(* sigterm_handler and the finally block: switchLightOff, then the *)
(* process is gone                                                  *)
Terminate ==
    /\ phase = "running"
    /\ phase' = "stopped"
    /\ light' = 0
    /\ offCount' = offCount + 1
    /\ holding' = FALSE
    /\ UNCHANGED <<config, dimIndex, current_state, stateFile, button, threads, history>>

(* The service is started again with the same configuration file. *)
Start ==
    /\ phase = "stopped"
    /\ phase' = "running"
    /\ button' \in {"released", "pressed"}
    /\ dimIndex' = readStateFile(stateFile, initDimIndex)
    /\ current_state' = 0
    /\ light' = 0
    /\ holding' = FALSE
    /\ offCount' = 0
    /\ lastEvent' = "start" /\ lastAct' = "start" /\ lastValue' = <<>>
    /\ nPress' = 0
    /\ startPressed' = (button' = "pressed")
    /\ lightAct' = "start" /\ prevLight' = "start"
    /\ cycHold' = FALSE /\ cycActs' = <<>> /\ cycIdx' = dimIndex'
    /\ levelReq' = <<>>
    /\ startFile' = stateFile /\ startSaved' = savedVal
    /\ dimSince' = FALSE /\ firstOn' = <<>>
    /\ lastIO' = NoFault
    /\ UNCHANGED <<config, stateFile, threads, savedVal>>

Next == WhenPressed \/ WhenReleased \/ WhenHeld \/ Terminate \/ Start

Spec == Init /\ [][Next]_vars

(* ---- the service with devices that can fail ---- *)

(* One button callback run from its first to its last statement, the *)
(* devices answering as io says (an answer of a device the handler   *)
(* does not use is not a case of its own).  Of the history, the last *)
(* handler and the count of presses are kept.                        *)
HandleIO(event, io) ==
    LET r == handleButtonEventIO(event, current_state, dimIndex, light, stateFile, io)
    IN  /\ io = usedIO(r.act, io)
        /\ current_state' = r.state
        /\ dimIndex' = r.idx
        /\ light' = r.light
        /\ stateFile' = r.file
        /\ lastEvent' = EventName(event)
        /\ lastAct' = r.act
        /\ lastValue' = r.value
        /\ nPress' = IF event = EVENT_PRESS THEN nPress + 1 ELSE nPress
        /\ lastIO' = io
        /\ UNCHANGED <<startPressed, lightAct, prevLight, cycHold, cycActs, cycIdx,
                       levelReq, savedVal, startFile, startSaved, dimSince, firstOn>>

(* handleWhenPressed *)
WhenPressedIO ==
    /\ phase = "running" /\ button = "released" /\ nPress < MaxFaultPress
    /\ button' = "pressed"
    /\ holding' = TRUE
    /\ \E io \in IOOutcomes : HandleIO(EVENT_PRESS, io)
    /\ UNCHANGED <<config, phase, threads, offCount>>

(* handleWhenReleased *)
WhenReleasedIO ==
    /\ phase = "running" /\ button = "pressed"
    /\ button' = "released"
    /\ holding' = FALSE
    /\ \E io \in IOOutcomes : HandleIO(EVENT_RELEASE, io)
    /\ UNCHANGED <<config, phase, threads, offCount>>

(* handleWhenHeld *)
WhenHeldIO ==
    /\ phase = "running" /\ dimMode = 2 /\ button = "pressed" /\ holding
    /\ \E io \in IOOutcomes : HandleIO(EVENT_HOLD, io)
    /\ UNCHANGED <<config, phase, button, holding, threads, offCount>>

NextFaults == WhenPressedIO \/ WhenReleasedIO \/ WhenHeldIO \/ Terminate

SpecFaults == Init /\ [][NextFaults]_vars

(* ---- the start of the process, step by step ---- *)

(* The process before initGPIO: the configuration file, the state file *)
(* and the button are as the process finds them, the object has no     *)
(* attributes yet, the light is dark.                                  *)
InitStart ==
    /\ configFile \in ConfigFiles
    /\ stateFile \in FileContents
    /\ button \in {"released", "pressed"}
    /\ phase = "init"
    /\ dimMode = Unset /\ eventMode = Unset /\ dimLevels = Unset
    /\ dimStep = Unset /\ linExp = Unset
    /\ dimIndex = Unset /\ current_state = Unset
    /\ light = 0
    /\ holding = FALSE
    /\ pc = [t \in Threads |-> "idle"]
    /\ ev = [t \in Threads |-> IF t = "hold" THEN EVENT_HOLD ELSE EVENT_RELEASE]
    /\ next_state = [t \in Threads |-> 0]
    /\ offCount = 0
    /\ lastEvent = "start" /\ lastAct = "start" /\ lastValue = <<>>
    /\ nPress = 0
    /\ startPressed = (button = "pressed")
    /\ lightAct = "start" /\ prevLight = "start"
    /\ cycHold = FALSE /\ cycActs = <<>> /\ cycIdx = Unset
    /\ levelReq = <<>> /\ savedVal = <<>>
    /\ startFile = stateFile /\ startSaved = <<>>
    /\ dimSince = FALSE /\ firstOn = <<>>
    /\ lastIO = NoFault

(* initGPIO, first part: getButtonConfig, the dim options, and         *)
(* createAndConfigureButton, which gives the callbacks to the button;  *)
(* a failed check ends the process (sys.exit(-3))                      *)
ConfigureInput ==
    /\ phase = "init"
    /\ eventMode' = configFile.event
    /\ IF configFile.event = -1
       THEN /\ phase' = "failed"
            /\ UNCHANGED <<dimMode, dimIndex, dimLevels, dimStep>>
       ELSE LET d == getDimmingConfig(configFile.dim)
            IN  /\ dimMode' = d.dimMode
                /\ dimIndex' = d.dimIndex
                /\ dimLevels' = d.dimLevels
                /\ dimStep' = d.dimStep
                /\ phase' = IF d.ok THEN "light" ELSE "failed"
    /\ UNCHANGED <<linExp, configFile, current_state, light, stateFile, button, holding,
                   threads, offCount, history>>

(* initGPIO, second part: createAndConfigureLight *)
ConfigureLight ==
    /\ phase = "light"
    /\ linExp' = IF configFile.exp = <<>> THEN 1 ELSE configFile.exp[1]
    /\ phase' = IF checkLinExp(configFile.exp) THEN "statefile" ELSE "failed"
    /\ light' = 0
    /\ UNCHANGED <<dimMode, eventMode, dimLevels, dimStep, configFile, dimIndex,
                   current_state, stateFile, button, holding, threads, offCount, history>>

(* lightswitch.readStateFile() *)
ReadStateFile ==
    /\ phase = "statefile"
    /\ dimIndex' = readStateFile(stateFile, dimIndex)
    /\ cycIdx' = dimIndex'
    /\ phase' = "setup"
    /\ UNCHANGED <<config, current_state, light, stateFile, button, holding, threads,
                   offCount, lastEvent, lastAct, lastValue, nPress, startPressed,
                   lightAct, prevLight, cycHold, cycActs, levelReq, savedVal,
                   startFile, startSaved, dimSince, firstOn, lastIO>>

(* lightswitch.setupStateMachine(), then the service loop *)
SetupStateMachine ==
    /\ phase = "setup"
    /\ current_state' = 0
    /\ phase' = "running"
    /\ UNCHANGED <<config, dimIndex, light, stateFile, button, holding, threads,
                   offCount, history>>

(* The button changes while the callbacks are set and the state machine *)
(* is not: handleButtonEvent reads self._current_state, which does not  *)
(* exist, and the callback ends with that AttributeError.               *)
EarlyCallback ==
    /\ phase \in {"light", "statefile", "setup"}
    /\ \/ /\ button = "released" /\ nPress < MaxBootPress
          /\ button' = "pressed"
          /\ lastEvent' = "press"
          /\ nPress' = nPress + 1
       \/ /\ button = "pressed"
          /\ button' = "released"
          /\ lastEvent' = "release"
          /\ nPress' = nPress
    /\ lastAct' = "raised"
    /\ lastValue' = <<>>
    /\ UNCHANGED <<config, phase, engine, holding, threads, offCount, startPressed,
                   lightAct, prevLight, cycHold, cycActs, cycIdx, levelReq, savedVal,
                   startFile, startSaved, dimSince, firstOn, lastIO>>

(* a press in the service loop, counted with those before it *)
ServicePress == nPress < MaxBootPress /\ WhenPressed

NextStart ==
    \/ ConfigureInput \/ ConfigureLight \/ ReadStateFile \/ SetupStateMachine
    \/ EarlyCallback
    \/ ServicePress \/ WhenReleased \/ WhenHeld \/ Terminate

SpecStart == InitStart /\ [][NextStart]_vars

(* ---- the callbacks as the button's threads run them ---- *)

(* The class takes no lock and the callbacks are plain methods: the edge  *)
(* thread runs handleWhenPressed and handleWhenReleased one after the     *)
(* other, the hold timer runs handleWhenHeld on a thread of its own, and  *)
(* the main thread runs the finally block.  A callback is cut into the    *)
(* steps of handleButtonEvent: the lookup (getNextStateNumber), the       *)
(* action (action_call of setNextState), and the assignment of            *)
(* self._current_state (the looked-up state, or 0 on the error path).     *)
(* The history variables describe runs of whole callbacks; these steps    *)
(* leave them as the start set them.                                      *)

(* the edge thread calls handleWhenPressed *)
BeginPress ==
    /\ phase = "running" /\ pc["edge"] = "idle"
    /\ button = "released"
    /\ button' = "pressed"
    /\ pc' = [pc EXCEPT !["edge"] = "lookup"]
    /\ ev' = [ev EXCEPT !["edge"] = EVENT_PRESS]
    /\ UNCHANGED <<config, phase, engine, holding, next_state, offCount, history>>

(* the edge thread calls handleWhenReleased; the hold timer is stopped *)
(* before the callback runs                                            *)
BeginRelease ==
    /\ phase = "running" /\ pc["edge"] = "idle"
    /\ button = "pressed"
    /\ button' = "released"
    /\ holding' = FALSE
    /\ pc' = [pc EXCEPT !["edge"] = "lookup"]
    /\ ev' = [ev EXCEPT !["edge"] = EVENT_RELEASE]
    /\ UNCHANGED <<config, phase, engine, next_state, offCount, history>>

(* the hold timer expires while the button is down and calls *)
(* handleWhenHeld (dimMode 2 only)                           *)
BeginHold ==
    /\ phase = "running" /\ dimMode = 2 /\ pc["hold"] = "idle"
    /\ button = "pressed" /\ holding
    /\ pc' = [pc EXCEPT !["hold"] = "lookup"]
    /\ UNCHANGED <<config, phase, engine, button, holding, ev, next_state,
                   offCount, history>>

(* handleButtonEvent: next_state = getNextStateNumber(event, current_state) *)
Lookup(t) ==
    /\ phase # "stopped" /\ pc[t] = "lookup"
    /\ next_state' = [next_state EXCEPT
                         ![t] = getNextStateNumber(ev[t], current_state, dimIndex)]
    /\ dimIndex' = lookupDimIndex(ev[t], current_state, dimIndex)
    /\ pc' = [pc EXCEPT ![t] = IF next_state'[t] >= 0 THEN "action" ELSE "reset"]
    /\ UNCHANGED <<config, phase, current_state, light, stateFile, button, holding,
                   ev, offCount, history>>

(* setNextState: the action of the looked-up state is run *)
Action(t) ==
    /\ phase # "stopped" /\ pc[t] = "action"
    /\ LET r == runAction(actionOf(next_state[t]), dimIndex, light, stateFile)
       IN  /\ dimIndex' = r.idx
           /\ light' = r.light
           /\ stateFile' = r.file
    /\ pc' = [pc EXCEPT ![t] = "commit"]
    /\ UNCHANGED <<config, phase, current_state, button, holding, ev, next_state,
                   offCount, history>>

(* setNextState: self._current_state = next_state, and the callback *)
(* returns; after a press callback the hold timer starts            *)
Commit(t) ==
    /\ phase # "stopped" /\ pc[t] = "commit"
    /\ current_state' = committedState(next_state[t])
    /\ pc' = [pc EXCEPT ![t] = "idle"]
    /\ holding' = IF t = "edge" /\ ev[t] = EVENT_PRESS THEN TRUE ELSE holding
    /\ UNCHANGED <<config, phase, dimIndex, light, stateFile, button, ev, next_state,
                   offCount, history>>

(* handleButtonEvent: the lookup returned -1, self._current_state = 0 *)
Reset(t) ==
    /\ phase # "stopped" /\ pc[t] = "reset"
    /\ current_state' = resetState
    /\ pc' = [pc EXCEPT ![t] = "idle"]
    /\ holding' = IF t = "edge" /\ ev[t] = EVENT_PRESS THEN TRUE ELSE holding
    /\ UNCHANGED <<config, phase, dimIndex, light, stateFile, button, ev, next_state,
                   offCount, history>>

(* sigterm_handler raises SystemExit in the main thread; the finally *)
(* block calls switchLightOff                                        *)
SwitchLightOff ==
    /\ phase = "running"
    /\ phase' = "exiting"
    /\ light' = 0
    /\ offCount' = offCount + 1
    /\ UNCHANGED <<config, dimIndex, current_state, stateFile, button, holding,
                   threads, history>>

(* the interpreter exits and the callback threads end with it *)
Exit ==
    /\ phase = "exiting"
    /\ phase' = "stopped"
    /\ UNCHANGED <<config, engine, button, holding, threads, offCount, history>>

NextThreads ==
    \/ BeginPress \/ BeginRelease \/ BeginHold
    \/ \E t \in Threads : Lookup(t) \/ Action(t) \/ Commit(t) \/ Reset(t)
    \/ SwitchLightOff \/ Exit

SpecThreads == Init /\ [][NextThreads]_vars

(* ---- properties ---- *)

(* the callback of an event, as a step *)
When(event) ==
    IF event = EVENT_PRESS THEN WhenPressed
    ELSE IF event = EVENT_RELEASE THEN WhenReleased
    ELSE WhenHeld

Events == {EVENT_RELEASE, EVENT_PRESS, EVENT_HOLD}

(* the edge on which an event mode switches the light on, and off *)
OnEdge == IF eventMode \in {0, 2} THEN "press" ELSE "release"
OffEdge == IF eventMode \in {0, 3} THEN "press" ELSE "release"

(* C1: for the selected (dimMode, eventMode), every state a transition   *)
(* table entry can produce, the sentinel 9 counted with both states it   *)
(* resolves to, has an action that is not None; and no handler has taken *)
(* the 'Action was None' path of setNextState.                           *)
C1_TargetsHaveActions ==
    /\ \A e \in 1..Len(stateMachine[1]) :
         \A c \in DOMAIN stateMachine[1][e] :
            IF stateMachine[1][e][c] = Sentinel
            THEN \A i \in {dimLevels - 1, dimLevels} :
                    actionOf(resolveSentinel(i)) # ActionUndefined
            ELSE actionOf(stateMachine[1][e][c]) # ActionUndefined
    /\ lastAct # "fault"

(* a sentinel entry was resolved to the turn-off state On-by-press-2 of *)
(* event mode press_release and its action (none) was found             *)
C1_Witness ==
    /\ dimMode = 1 /\ eventMode = 2
    /\ lastEvent = "press" /\ current_state = 4 /\ lastAct = "none" /\ dimIndex = 0
    /\ nPress > 1

(* C2: with the button up at the start, on-restore, the dim-step of      *)
(* dimMode 1 and off run only in the handler of the edge the event mode  *)
(* selects for them (the dim-step of dimMode 2 runs on hold events       *)
(* only); and in dimMode 0, event mode press, the first press ends in    *)
(* On-by-press with on-restore, the second in Off-by-press with off, and *)
(* releases run no action.                                               *)
C2_EdgeSelectsAction ==
    ~startPressed =>
        /\ (lastAct = "on" \/ (lastAct = "dim" /\ dimMode = 1)) => lastEvent = OnEdge
        /\ lastAct = "off" => lastEvent = OffEdge
        /\ (lastAct = "dim" /\ dimMode = 2) => lastEvent = "hold"
        /\ (dimMode = 0 /\ eventMode = 0) =>
              /\ (lastEvent = "press" /\ nPress = 1) =>
                    (current_state = 1 /\ lastAct = "on")
              /\ (lastEvent = "press" /\ nPress = 2) =>
                    (current_state = 3 /\ lastAct = "off")
              /\ lastEvent = "release" => lastAct = "none"

(* the second press of the scenario has switched the light off *)
C2_Witness ==
    /\ ~startPressed /\ dimMode = 0 /\ eventMode = 0
    /\ lastEvent = "press" /\ nPress = 2 /\ current_state = 3 /\ lastAct = "off"
    /\ light = 0

(* the actions and dim indexes of the first five presses, dimLevels = 3 *)
C3_Scenario ==
    << <<"dim", 1>>, <<"dim", 2>>, <<"dim", 3>>, <<"off", 0>>, <<"dim", 1>> >>

(* C3: in dimMode 1, event mode press, upward steps, button up at the    *)
(* start: after the n-th press dimIndex is n mod (dimLevels + 1), the    *)
(* press ran off when that is 0 and dim-step otherwise, and releases run *)
(* nothing and keep the index; for dimLevels = 3 the first five presses  *)
(* run dim, dim, dim, off, dim with indexes 1, 2, 3, 0, 1.               *)
C3_PressCycle ==
    (dimMode = 1 /\ eventMode = 0 /\ dimStep > 0 /\ ~startPressed) =>
        /\ dimIndex = nPress % (dimLevels + 1)
        /\ lastEvent = "press" =>
              lastAct = IF nPress % (dimLevels + 1) = 0 THEN "off" ELSE "dim"
        /\ lastEvent = "release" => lastAct = "none"
        /\ (dimLevels = 3 /\ lastEvent = "press" /\ nPress \in 1..5) =>
              <<lastAct, dimIndex>> = C3_Scenario[nPress]

(* the fifth press of the scenario *)
C3_Witness ==
    /\ dimMode = 1 /\ eventMode = 0 /\ dimStep > 0 /\ ~startPressed
    /\ dimLevels = 3 /\ nPress = 5 /\ lastEvent = "press"
    /\ lastAct = "dim" /\ dimIndex = 1

(* C4, press/release cycles: in dimMode 2, the index does not change in *)
(* a cycle without a hold event, an on-restore passes the level of the  *)
(* current index, and a finished cycle without a hold ran exactly one   *)
(* light action: on-restore if the light action before it was off (or   *)
(* there was none), off if it was on-restore or dim-step.               *)
C4_Cycles ==
    dimMode = 2 =>
        /\ ~cycHold => dimIndex = cycIdx
        /\ lastAct = "on" =>
              lastValue = <<IF dimStep > 0 THEN dimIndex ELSE dimLevels + 1 - dimIndex>>
        /\ (lastEvent = "release" /\ nPress > 0 /\ ~cycHold) =>
              cycActs = <<IF prevLight \in {"start", "off"} THEN "on" ELSE "off">>

(* C4, hold events: in dimMode 2 a hold event handled while the light is *)
(* lit runs dim-step, moves the index by one step (from dimLevels to 1), *)
(* ends in On-by-hold and leaves the new index in the state file.        *)
C4_Holds ==
    (WhenHeld /\ light > 0) =>
        /\ lastAct' = "dim"
        /\ current_state' = 6
        /\ dimIndex' = IF dimIndex >= dimLevels THEN 1 ELSE dimIndex + 1
        /\ stateFile' = <<"num", dimIndex'>>

HasEntry(event, current) ==
    /\ event + 1 <= Len(STATES[dimMode + 1][eventMode + 1])
    /\ current \in DOMAIN STATES[dimMode + 1][eventMode + 1][event + 1]

(* C5 as stated: a callback whose (event, current state) has no entry in *)
(* the transition table runs no action and changes neither the light,    *)
(* the index, nor, whatever it is, the current state.                    *)
C5_Original ==
    \A t \in Threads :
        /\ (Lookup(t) /\ ~HasEntry(ev[t], current_state)) =>
              (pc'[t] = "reset" /\ UNCHANGED <<current_state, dimIndex, light, stateFile>>)
        /\ Reset(t) =>
              (pc'[t] = "idle" /\ UNCHANGED <<current_state, dimIndex, light, stateFile>>)

C5_NoEntryIsNoOp == [][C5_Original]_vars

(* C5, one step of the amended claim *)
C5_Step ==
    \A t \in Threads :
        /\ (Lookup(t) /\ ~HasEntry(ev[t], current_state)) =>
              (pc'[t] = "reset" /\ UNCHANGED <<current_state, dimIndex, light, stateFile>>)
        /\ Reset(t) =>
              (pc'[t] = "idle" /\ current_state' = 0
               /\ UNCHANGED <<dimIndex, light, stateFile>>)

(* C5, amended: for every (dimMode, eventMode), a callback whose (event, *)
(* current state) has no entry in the transition table runs no action    *)
(* and leaves the light and the index unchanged, and it sets the current *)
(* state to Off-by-release (0) whatever it was.                          *)
C5_NoEntryResets == [][C5_Step]_vars

(* a hold callback found no entry for On-by-release while the light is *)
(* lit, and is about to set the state                                  *)
C5_Witness ==
    /\ pc["hold"] = "reset" /\ ev["hold"] = EVENT_HOLD
    /\ ~HasEntry(EVENT_HOLD, current_state)
    /\ current_state = 2 /\ light > 0 /\ pc["edge"] = "idle"

(* C6: callbacks never interleave: while one callback is between its   *)
(* lookup and the assignment of the current state, no other callback   *)
(* has started.                                                        *)
C6_CallbacksSerialized ==
    \A t \in Threads : \A u \in Threads \ {t} :
        pc[t] \in {"action", "commit", "reset"} => pc[u] = "idle"

(* C7, one step: after the switch-off of the shutdown nothing changes *)
(* the light.                                                         *)
C7_Step == phase = "exiting" => light' = light

(* C7: a terminated process has switched the light off exactly once, *)
(* and no callback changes the light after that switch-off.          *)
C7_ShutdownOffIsLast ==
    /\ [](phase \in {"exiting", "stopped"} => offCount = 1)
    /\ [][C7_Step]_vars

(* C8, one step: a handler that runs dim-step takes the index from *)
(* dimLevels to 1, and from any index below dimLevels to the next; *)
(* from an index of 0..dimLevels the result is never 0.            *)
C8_Step ==
    \A e \in Events :
        (When(e) /\ lastAct' = "dim") =>
            /\ dimIndex = dimLevels => dimIndex' = 1
            /\ dimIndex < dimLevels => dimIndex' = dimIndex + 1
            /\ dimIndex \in 0..dimLevels => dimIndex' \in 1..dimLevels

C9_Step ==
    \A e \in Events :
        /\ (When(e) /\ lastAct' = "off") =>
              dimIndex' = lookupDimIndex(e, current_state, dimIndex)
        /\ (When(e) /\ lastAct' = "off" /\ dimMode # 1) => dimIndex' = dimIndex
        /\ (When(e) /\ lastAct' = "on") =>
              /\ dimIndex' = dimIndex
              /\ levelReq # <<>> => lastValue' = levelReq

(* C9: off does not erase the level, for both step directions: the off *)
(* action leaves dimIndex unchanged, and an on-restore passes the same *)
(* level as the last on-restore or dim-step before it, whether or not  *)
(* an off ran in between.                                              *)
C9_OffKeepsLevel == [][C9_Step]_vars

(* an on-restore has brought back the level that a dim-step set before *)
(* the light was switched off, downward steps                          *)
C9_Witness ==
    /\ dimMode = 2 /\ dimStep < 0 /\ dimSince /\ lastAct = "on"
    /\ prevLight = "off" /\ lastEvent = "press" /\ light > 0
    /\ lastValue = levelReq /\ dimIndex < dimLevels /\ dimIndex > 1

(* the process started in dimMode 2 on a stored index of 1..dimLevels *)
RestoredStart ==
    dimMode = 2 /\ startFile[1] = "num" /\ startFile[2] \in 1..dimLevels

(* C10 as stated: after a start on a stored index k of 1..dimLevels the *)
(* index is k, and the first on-restore passes k/dimLevels for upward   *)
(* steps and the level of the dim-step that stored k.                   *)
C10_FirstOnRestoresStored ==
    RestoredStart =>
        /\ lastEvent = "start" => dimIndex = startFile[2]
        /\ firstOn # <<>> =>
              /\ dimStep > 0 => firstOn[1] = startFile[2]
              /\ startSaved # <<>> => firstOn[1] = startSaved[1]

(* C10, amended: the same, for a first on-restore that no dim-step *)
(* preceded since the start.                                       *)
C10_FirstOnWithoutDim ==
    RestoredStart =>
        /\ lastEvent = "start" => dimIndex = startFile[2]
        /\ (firstOn # <<>> /\ firstOn[2] = 0) =>
              /\ dimStep > 0 => firstOn[1] = startFile[2]
              /\ startSaved # <<>> => firstOn[1] = startSaved[1]

(* restart on the index 3 that a dim-step stored, dimLevels = 4: the *)
(* first on-restore passes 3/4                                       *)
C10_Witness ==
    /\ dimMode = 2 /\ dimLevels = 4 /\ dimStep > 0 /\ startFile = <<"num", 3>>
    /\ startSaved = <<3>> /\ firstOn = <<3, 0>> /\ lastAct = "on"
    /\ light = brightness(3)

(* C11: in dimMode 2 the process reaches the service loop with the   *)
(* index at its default dimLevels when the state file is absent and   *)
(* also when reading it fails (no number in it, or unreadable).       *)
C11_DefaultOnReadFailure ==
    (dimMode = 2 /\ lastEvent = "start" /\ startFile[1] \in {"absent", "text"}) =>
        (phase # "running" \/ dimIndex = dimLevels)

(* the callback of an event with devices that can fail, as a step *)
WhenIO(event) ==
    IF event = EVENT_PRESS THEN WhenPressedIO
    ELSE IF event = EVENT_RELEASE THEN WhenReleasedIO
    ELSE WhenHeldIO

(* C12, one handler: whatever the light and the state file do, a handler *)
(* that found its table entry ends in the looked-up state; a refused     *)
(* value leaves the light as it was; and after a dim-step whose save     *)
(* failed the index is advanced and the light has the new level.         *)
C12_Step ==
    \A e \in Events :
        (WhenIO(e) /\ HasEntry(e, current_state)) =>
            /\ current_state' = getNextStateNumber(e, current_state, dimIndex)
            /\ lastAct' # "fault"
            /\ lastIO'.light = "refused" => light' = light
            /\ (lastAct' = "dim" /\ lastIO'.write # "ok") =>
                  /\ dimIndex' = IF dimIndex >= dimLevels THEN 1 ELSE dimIndex + 1
                  /\ lastValue' = <<levelValue(dimIndex')>>
                  /\ lastIO'.light = "ok" =>
                        light' = setLightToLevel(levelValue(dimIndex'), light)
                  /\ stateFile' \in {stateFile, <<"text">>}

(* C12, later events: with the button up at the start every later event *)
(* finds the entry of the committed state, failures or not.             *)
C12_Later == (~startPressed /\ phase = "running") => lastAct # "noentry"

(* C12: when the light refuses the value of off, on-restore or dim-step, *)
(* or the save after a dim-step fails, the handler still sets the        *)
(* current state to the looked-up state (no reset to Off-by-release),    *)
(* later events are handled from it, and on a failed save the light's    *)
(* new value and the advanced index stay.                                *)
C12_FailedActionStillCommits == [](C12_Later) /\ [][C12_Step]_vars

(* the light refused the off of the second press: Off-by-press is *)
(* committed with the light still lit                             *)
C12_Witness ==
    /\ dimMode = 0 /\ eventMode = 0 /\ ~startPressed /\ phase = "running"
    /\ lastEvent = "press" /\ nPress = 2 /\ lastAct = "off"
    /\ lastIO.light = "refused" /\ current_state = 3 /\ light > 0

(* C17, one handler: the state file changes only in a dim-step of      *)
(* dimMode 2; after such a dim-step whose write succeeded it holds the *)
(* index; a dim-step of dimMode 1 leaves it alone.                     *)
C17_Step ==
    \A e \in Events :
        WhenIO(e) =>
            /\ stateFile' # stateFile => (dimMode = 2 /\ lastAct' = "dim")
            /\ (lastAct' = "dim" /\ dimMode = 2 /\ lastIO'.write = "ok") =>
                  stateFile' = <<"num", dimIndex'>>
            /\ (lastAct' = "dim" /\ dimMode = 2 /\ lastIO'.write = "truncated") =>
                  stateFile' = <<"text">>
            /\ (lastAct' = "dim" /\ dimMode # 2) => stateFile' = stateFile

(* C17, dim modes 0 and 1: the state file is as the start found it, and *)
(* the start took the index from the configuration, not from the file.  *)
C17_NoStore ==
    dimMode < 2 =>
        /\ stateFile = startFile
        /\ lastEvent = "start" => dimIndex = initDimIndex

(* C17: a dim-step writes the state file if and only if dimMode is 2;  *)
(* in dimMode 2 the file holds the index after every dim-step whose    *)
(* write succeeded; in dimMode 0 and 1 the file is neither read at the *)
(* start nor written by any sequence of events.                        *)
C17_SaveOnlyInDimMode2 == [](C17_NoStore) /\ [][C17_Step]_vars

(* dimMode 2, start on a file without a number: a hold has stored the *)
(* index 1 although the light refused the value                       *)
C17_Witness ==
    /\ dimMode = 2 /\ startFile = <<"text">> /\ lastEvent = "hold" /\ lastAct = "dim"
    /\ lastIO = [light |-> "refused", write |-> "ok"]
    /\ dimIndex = 1 /\ stateFile = <<"num", 1>> /\ current_state = 6

(* the phases in which initGPIO has not returned True *)
BeforeService == {"init", "light", "failed"}

(* the configuration has a dim mode outside 0..2, no valid event word, *)
(* or an exponent below 1                                              *)
RejectedConfig ==
    \/ configFile.event = -1
    \/ configFile.dim # <<>> /\ configFile.dim[1] \notin 0..2
    \/ configFile.exp # <<>> /\ configFile.exp[1] < 1

(* the configuration has a level count <= 0, or dimMode 2 and no hold *)
(* time                                                               *)
DefaultedConfig ==
    \/ Len(configFile.dim) > 1 /\ configFile.dim[2] <= 0
    \/ configFile.dim # <<>> /\ configFile.dim[1] = 2 /\ Len(configFile.dim) < 4

(* the process ended in initGPIO: no state machine, no service loop, no *)
(* handler has looked up an event or run an action                      *)
EndsInConfigError ==
    /\ phase \in BeforeService
    /\ current_state = Unset
    /\ lastAct \in {"start", "raised"}
    /\ light = 0

(* C13 as stated: a start with a dim mode outside 0..2, an invalid      *)
(* event mode, a level count <= 0, an exponent below 1, or dimMode 2    *)
(* without a hold time ends in the configuration error: the state       *)
(* machine is never set up, the service loop is not entered, no button  *)
(* event is handled.                                                    *)
C13_InvalidConfigNeverServes ==
    (RejectedConfig \/ DefaultedConfig) => EndsInConfigError

(* C13, amended: a start with a dim mode outside 0..2, an invalid event *)
(* mode or an exponent below 1 ends in the configuration error as       *)
(* stated; a level count <= 1 is replaced by 3 and a hold time left out *)
(* in dimMode 2 by the default, and with nothing else wrong the process *)
(* goes on with these.                                                  *)
C13_RejectedOrDefaulted ==
    /\ RejectedConfig => EndsInConfigError
    /\ (phase \notin {"init", "failed"} /\ dimMode \in {1, 2}) =>
          dimLevels = IF Len(configFile.dim) > 1 /\ configFile.dim[2] > 1
                      THEN configFile.dim[2]
                      ELSE 3
    /\ (phase = "failed" /\ ~RejectedConfig) =>
          \/ ~checkDimConfigParamCount(configFile.dim[1], Len(configFile.dim))
          \/ Len(configFile.dim) > 2 /\ configFile.dim[3] = "bad"
          \/ Len(configFile.dim) > 3 /\ configFile.dim[4] = "bad"

(* Dim = 2,0: the service runs with 3 levels and the default hold time, *)
(* and a hold event has run a dim-step                                  *)
C13_Witness ==
    /\ configFile.dim = <<2, 0>> /\ configFile.exp = <<2>> /\ phase = "running"
    /\ dimMode = 2 /\ dimLevels = 3 /\ lastEvent = "hold" /\ lastAct = "dim"
    /\ light > 0

(* an exponent below 1 has ended the start after the callbacks were set *)
C13_WitnessRejected ==
    /\ phase = "failed" /\ configFile.exp = <<0>> /\ configFile.event = 2
    /\ lastAct = "raised" /\ dimMode = 1

(* the turn-off state of each event mode *)
TurnOffState == (0 :> 3 @@ 1 :> 0 @@ 2 :> 4 @@ 3 :> 5)

(* C14, cycles of dimMode 1 with the button up at the start: a cycle    *)
(* begun below dimLevels runs exactly one dim-step and no off, a cycle  *)
(* begun at dimLevels runs off and nothing else and leaves the index 0; *)
(* so after n complete cycles the index is n mod (dimLevels + 1).       *)
C14_Cycles ==
    (dimMode = 1 /\ ~startPressed /\ nPress > 0) =>
        /\ (lastEvent = "press" /\ cycIdx < dimLevels) =>
              (cycActs \in {<<>>, <<"dim">>} /\ dimIndex = cycIdx + Len(cycActs))
        /\ (lastEvent = "press" /\ cycIdx = dimLevels) =>
              (cycActs \in {<<>>, <<"off">>}
               /\ dimIndex = IF eventMode = 1 THEN dimLevels ELSE 0)
        /\ (lastEvent = "release" /\ cycIdx < dimLevels) =>
              (cycActs = <<"dim">> /\ dimIndex = cycIdx + 1)
        /\ (lastEvent = "release" /\ cycIdx = dimLevels) =>
              (cycActs = <<"off">> /\ dimIndex = 0)
        /\ lastEvent = "release" => dimIndex = nPress % (dimLevels + 1)

(* C14, the sentinel entry: a handler whose table entry is 9 ends in the *)
(* dimming state and runs no off when the index is below dimLevels, and  *)
(* ends in the turn-off state of the event mode (3, 0, 4, 5) with the    *)
(* index 0 and no dim-step when the index is dimLevels.                  *)
C14_Sentinel ==
    \A e \in Events :
        (When(e) /\ nextTemp(e, current_state) = Sentinel) =>
            /\ dimMode = 1
            /\ dimIndex < dimLevels =>
                  /\ current_state' = IF eventMode = 1 THEN 2 ELSE 1
                  /\ lastAct' \in {"dim", "none"}
                  /\ lastAct' = "dim" => dimIndex' = dimIndex + 1
                  /\ lastAct' = "none" => dimIndex' = dimIndex
            /\ dimIndex = dimLevels =>
                  /\ current_state' = TurnOffState[eventMode]
                  /\ lastAct' \in {"off", "none"}
                  /\ dimIndex' = 0

(* C14: in dimMode 1, for each event mode, the sentinel transition is  *)
(* resolved by the index: below dimLevels the cycle runs exactly one   *)
(* dim-step and never off; at dimLevels the handler ends in the event  *)
(* mode's turn-off state, the index is 0 and off is the cycle's only   *)
(* light action; complete cycles run dim-step dimLevels times, then    *)
(* off, and again.                                                     *)
C14_SentinelByIndex == [](C14_Cycles) /\ [][C14_Sentinel]_vars

(* event mode press_release: the cycle after the last level has ended, *)
(* the press went to On-by-press-2 and the release switched off        *)
C14_Witness ==
    /\ dimMode = 1 /\ eventMode = 2 /\ ~startPressed
    /\ lastEvent = "release" /\ cycIdx = dimLevels /\ cycActs = <<"off">>
    /\ dimIndex = 0 /\ current_state = 0 /\ nPress = dimLevels + 1 /\ light = 0

C16_IndexInRange == dimIndex \in 0..dimLevels

(* a callback is running the dim-step *)
DimStepRuns ==
    \E t \in Threads : Action(t) /\ actionOf(next_state[t]) = ActionDimNo

(* C18 as stated: after the start the index changes in the dim-step   *)
(* action only; the lookup with its sentinel resolution, the other    *)
(* actions, the assignment of the current state and the missing-entry *)
(* path leave it unchanged.                                           *)
C18_Original == dimIndex' # dimIndex => DimStepRuns

C18_OnlyDimStepChangesIndex == [][C18_Original]_vars

(* C18, one step of the amended claim *)
C18_Step ==
    dimIndex' # dimIndex =>
        \/ DimStepRuns
        \/ \E t \in Threads :
              /\ Lookup(t) /\ nextTemp(ev[t], current_state) = Sentinel
              /\ dimMode = 1 /\ ~(dimIndex < dimLevels) /\ dimIndex' = 0

(* C18, amended: after the start the index changes only in the dim-step *)
(* action and in the sentinel resolution of the lookup, which sets it   *)
(* to 0 when it turns the light off at the last level (dimMode 1); the  *)
(* actions none, off and on-restore, the assignment of the current      *)
(* state and the missing-entry path leave it unchanged.                 *)
C18_DimStepOrSentinel == [][C18_Step]_vars

(* dimMode 1: the lookup of a press at the last level has set the index *)
(* to 0 and the off action is about to run on the lit light             *)
C18_Witness ==
    /\ dimMode = 1 /\ eventMode = 0 /\ pc["edge"] = "action"
    /\ ev["edge"] = EVENT_PRESS /\ next_state["edge"] = 3
    /\ dimIndex = 0 /\ light > 0 /\ current_state = 2

(* the states named On-... *)
OnStates == {1, 2, 4, 6}

(* the process started with the button up and, in dimMode 2, on an *)
(* index of 1..dimLevels (stored, or the default of an absent file) *)
WellFormedStart ==
    /\ ~startPressed
    /\ dimMode = 2 =>
          \/ startFile[1] = "absent"
          \/ startFile[1] = "num" /\ startFile[2] \in 1..dimLevels

(* C19: for every (dimMode, eventMode), with the button up at the    *)
(* start, whole handlers, and a start index of 1..dimLevels, in the  *)
(* service loop the light is lit exactly when the current state is   *)
(* one of 1, 2, 4, 6, and off exactly when it is one of 0, 3, 5, 7.  *)
C19_StateMatchesLight ==
    (WellFormedStart /\ phase = "running") =>
        /\ light > 0 <=> current_state \in OnStates
        /\ light = 0 <=> current_state \in {0, 3, 5, 7}

(* dimMode 1, press_release: the press at the last level went to *)
(* On-by-press-2 without an action and the light is still lit    *)
C19_Witness ==
    /\ WellFormedStart /\ phase = "running" /\ dimMode = 1 /\ eventMode = 2
    /\ current_state = 4 /\ lastEvent = "press" /\ lastAct = "none" /\ light > 0

(* C20 for handlers run one at a time: with the button up at the      *)
(* start, for all 12 mode pairs, no handler takes the missing-entry   *)
(* path, and every event the button can deliver next (press when up;  *)
(* release, and hold in dimMode 2, when down) has an entry for the    *)
(* current state.                                                     *)
C20_EveryEventHasEntry ==
    (~startPressed /\ phase = "running") =>
        /\ lastAct # "noentry"
        /\ button = "released" => HasEntry(EVENT_PRESS, current_state)
        /\ button = "pressed" => HasEntry(EVENT_RELEASE, current_state)
        /\ (button = "pressed" /\ dimMode = 2) => HasEntry(EVENT_HOLD, current_state)

(* C20: with the button up at the start, for all 12 mode pairs, no  *)
(* callback finds the table without an entry for its event and the  *)
(* current state: the path that resets the current state is never   *)
(* taken, so never while the light is lit.                          *)
C20_NoCallbackWithoutEntry ==
    ~startPressed => \A t \in Threads : pc[t] # "reset"

(* C21: every value a handler passes to the light is within 0..1 *)
(* (before the brightness correction), in every dim mode, for     *)
(* both directions, whatever the state file held at the start.    *)
C21_ValueInUnitRange ==
    lastValue # <<>> => lastValue[1] \in 0..dimLevels

(* C22, one handler: in dimMode 1 with the button up at the start, a *)
(* handler that runs dim-step found the index below dimLevels and    *)
(* adds one to it; a dim-step that wraps the index from dimLevels to *)
(* 1 is a dim-step of dimMode 2.                                     *)
C22_Step ==
    \A e \in Events :
        (When(e) /\ lastAct' = "dim") =>
            /\ (dimMode = 1 /\ ~startPressed) =>
                  /\ dimIndex < dimLevels
                  /\ lookupDimIndex(e, current_state, dimIndex) = dimIndex
                  /\ dimIndex' = dimIndex + 1
            /\ (~startPressed /\ dimIndex' = 1 /\ dimIndex >= dimLevels) => dimMode = 2

(* C22: in dimMode 1, with the button up at the start and for every   *)
(* event mode, dim-step never runs while the index is dimLevels (the  *)
(* sentinel has switched off and reset the index before), so the wrap *)
(* from dimLevels to 1 is taken in dimMode 2 only.                    *)
C22_NoWrapInDimMode1 == [][C22_Step]_vars

(* dimMode 1, release_press: the dim-step of the release has reached *)
(* the last level                                                    *)
C22_Witness ==
    /\ dimMode = 1 /\ eventMode = 3 /\ ~startPressed /\ phase = "running"
    /\ lastEvent = "release" /\ lastAct = "dim" /\ dimIndex = dimLevels
    /\ nPress = dimLevels /\ current_state = 2 /\ light > 0

====
